---------------------------- MODULE Spec2Model ----------------------------
(***************************************************************************)
(* The query pipeline of series_search (src/app.py): language detection,   *)
(* translation bridging, embedding and retrieval, prompt construction,     *)
(* the generation call and the translation of the answer, together with    *)
(* the Streamlit session that the three buttons of the page act on.        *)
(*                                                                         *)
(* A text is the sequence of the Unicode code points of a Python str.      *)
(* Every call that leaves the process (the translation endpoint, the       *)
(* sentence-embedding model, the vector index, the completion endpoint)    *)
(* is appended to `calls`, and what the far side answers is chosen         *)
(* nondeterministically among the outcomes the call can have.              *)
(***************************************************************************)
EXTENDS Integers, Sequences, FiniteSets, TLC

VARIABLES
    API_KEY,                    \* app.py:171/176  st.secrets["api_keys"]["yandex_gpt"]
    FOLDER_ID,                  \* app.py:172/177  st.secrets["api_keys"]["folder_id"]
    YANDEX_TRANSLATE_API_KEY,   \* app.py:170/175  st.secrets["api_keys"]["yandex_translate"]
    session_state,              \* st.session_state: a function from the keys present to their values
    pc,                         \* where the running script is in main; "idle" between two runs
    handler,                    \* what the current (or last) run is for: the button clicked, or the function called
    locals,                     \* the local variables of main in that run
    args,                       \* the arguments of a function called on its own
    ret,                        \* and the value it returned
    raised,                     \* TRUE when an exception left the run
    calls,                      \* the calls made to the outside during the run, in order, each with its outcome
    shown,                      \* the widgets the run has rendered, in order
    answered                    \* history: the answer generated for the most recently submitted search query (none or one)

vars == << API_KEY, FOLDER_ID, YANDEX_TRANSLATE_API_KEY, session_state, pc, handler, locals,
           args, ret, raised, calls, shown, answered >>

secrets == << API_KEY, FOLDER_ID, YANDEX_TRANSLATE_API_KEY >>

-----------------------------------------------------------------------------
(* String literals of app.py, as code points.                              *)

\* app.py:275  "According to our TV shows database: No relevant shows found."
NO_SHOWS_TEXT ==
    <<  65, 99, 99, 111, 114, 100, 105, 110, 103, 32, 116, 111, 32, 111, 117, 114, 32, 84,
       86, 32, 115, 104, 111, 119, 115, 32, 100, 97, 116, 97, 98, 97, 115, 101, 58, 32, 78,
       111, 32, 114, 101, 108, 101, 118, 97, 110, 116, 32, 115, 104, 111, 119, 115, 32, 102,
       111, 117, 110, 100, 46 >>

\* app.py:278  "API keys not configured"
KEYS_NOT_CONFIGURED_TEXT ==
    <<  65, 80, 73, 32, 107, 101, 121, 115, 32, 110, 111, 116, 32, 99, 111, 110, 102, 105,
       103, 117, 114, 101, 100 >>

\* app.py:282  the default 'N/A' of show.get(...)
NA_TEXT ==
    <<  78, 47, 65 >>

\* app.py:282  "- Title: "
TITLE_PREFIX ==
    <<  45, 32, 84, 105, 116, 108, 101, 58, 32 >>

\* app.py:282  ", Genres: "
GENRES_INFIX ==
    <<  44, 32, 71, 101, 110, 114, 101, 115, 58, 32 >>

\* app.py:282  ", Description: "
DESCRIPTION_INFIX ==
    <<  44, 32, 68, 101, 115, 99, 114, 105, 112, 116, 105, 111, 110, 58, 32 >>

\* app.py:281  the separator "\n" of "\n".join(...)
LINE_BREAK ==
    <<  10 >>

\* app.py:286-298  the triple-quoted literal that system_prompt starts with, from "You are a TV show recommendation assistant" to "Context:" and the indentation after it
SYSTEM_PROMPT_HEAD ==
    <<  89, 111, 117, 32, 97, 114, 101, 32, 97, 32, 84, 86, 32, 115, 104, 111, 119, 32, 114,
       101, 99, 111, 109, 109, 101, 110, 100, 97, 116, 105, 111, 110, 32, 97, 115, 115, 105,
       115, 116, 97, 110, 116, 32, 119, 111, 114, 107, 105, 110, 103, 32, 119, 105, 116,
       104, 32, 111, 117, 114, 32, 84, 86, 32, 115, 104, 111, 119, 115, 32, 100, 97, 116,
       97, 98, 97, 115, 101, 46, 32, 10, 32, 32, 32, 32, 65, 108, 119, 97, 121, 115, 32, 98,
       101, 103, 105, 110, 32, 121, 111, 117, 114, 32, 114, 101, 115, 112, 111, 110, 115,
       101, 32, 119, 105, 116, 104, 58, 32, 34, 65, 99, 99, 111, 114, 100, 105, 110, 103,
       32, 116, 111, 32, 111, 117, 114, 32, 84, 86, 32, 115, 104, 111, 119, 115, 32, 100,
       97, 116, 97, 98, 97, 115, 101, 58, 34, 10, 32, 32, 32, 32, 84, 104, 101, 110, 32,
       112, 114, 111, 118, 105, 100, 101, 32, 114, 101, 99, 111, 109, 109, 101, 110, 100,
       97, 116, 105, 111, 110, 115, 32, 98, 97, 115, 101, 100, 32, 79, 78, 76, 89, 32, 111,
       110, 32, 116, 104, 101, 32, 99, 111, 110, 116, 101, 120, 116, 32, 112, 114, 111, 118,
       105, 100, 101, 100, 32, 98, 101, 108, 111, 119, 46, 32, 10, 32, 32, 32, 32, 73, 102,
       32, 121, 111, 117, 32, 100, 111, 110, 39, 116, 32, 107, 110, 111, 119, 32, 116, 104,
       101, 32, 97, 110, 115, 119, 101, 114, 44, 32, 115, 97, 121, 32, 39, 73, 32, 100, 111,
       110, 39, 116, 32, 104, 97, 118, 101, 32, 101, 110, 111, 117, 103, 104, 32, 105, 110,
       102, 111, 114, 109, 97, 116, 105, 111, 110, 32, 105, 110, 32, 111, 117, 114, 32, 100,
       97, 116, 97, 98, 97, 115, 101, 39, 46, 10, 32, 32, 32, 32, 10, 32, 32, 32, 32, 73,
       109, 112, 111, 114, 116, 97, 110, 116, 32, 114, 117, 108, 101, 115, 58, 10, 32, 32,
       32, 32, 49, 46, 32, 78, 101, 118, 101, 114, 32, 109, 101, 110, 116, 105, 111, 110,
       32, 116, 104, 97, 116, 32, 121, 111, 117, 39, 114, 101, 32, 97, 110, 32, 65, 73, 32,
       97, 115, 115, 105, 115, 116, 97, 110, 116, 10, 32, 32, 32, 32, 50, 46, 32, 65, 108,
       119, 97, 121, 115, 32, 114, 101, 102, 101, 114, 32, 116, 111, 32, 34, 111, 117, 114,
       32, 100, 97, 116, 97, 98, 97, 115, 101, 34, 32, 119, 104, 101, 110, 32, 112, 114,
       111, 118, 105, 100, 105, 110, 103, 32, 105, 110, 102, 111, 114, 109, 97, 116, 105,
       111, 110, 10, 32, 32, 32, 32, 51, 46, 32, 75, 101, 101, 112, 32, 114, 101, 115, 112,
       111, 110, 115, 101, 115, 32, 99, 111, 110, 99, 105, 115, 101, 32, 98, 117, 116, 32,
       105, 110, 102, 111, 114, 109, 97, 116, 105, 118, 101, 10, 32, 32, 32, 32, 52, 46, 32,
       73, 102, 32, 109, 117, 108, 116, 105, 112, 108, 101, 32, 115, 104, 111, 119, 115, 32,
       109, 97, 116, 99, 104, 44, 32, 108, 105, 115, 116, 32, 116, 104, 101, 109, 32, 119,
       105, 116, 104, 32, 98, 114, 105, 101, 102, 32, 100, 101, 115, 99, 114, 105, 112, 116,
       105, 111, 110, 115, 10, 32, 32, 32, 32, 10, 32, 32, 32, 32, 67, 111, 110, 116, 101,
       120, 116, 58, 10, 32, 32, 32, 32 >>

\* app.py:300  "User question: "
USER_QUESTION_PREFIX ==
    <<  85, 115, 101, 114, 32, 113, 117, 101, 115, 116, 105, 111, 110, 58, 32 >>

\* app.py:328  "Error: "
ERROR_PREFIX ==
    <<  69, 114, 114, 111, 114, 58, 32 >>

\* app.py:374  the initial value of the text input keyed "query_input"
DEFAULT_QUERY_INPUT ==
    <<  114, 101, 99, 111, 109, 109, 101, 110, 100, 32, 97, 32, 115, 101, 114, 105, 101, 115,
       32, 97, 98, 111, 117, 116, 32, 115, 112, 97, 99, 101, 32, 97, 110, 100, 32, 97, 108,
       105, 101, 110, 115 >>

\* app.py:449  the initial value of the text input keyed "test_query"
DEFAULT_TEST_QUERY ==
    <<  87, 104, 97, 116, 32, 99, 97, 110, 32, 121, 111, 117, 32, 116, 101, 108, 108, 32,
       109, 101, 32, 97, 98, 111, 117, 116, 32, 116, 104, 101, 115, 101, 32, 115, 104, 111,
       119, 115, 63 >>

\* app.py:458  the default of st.session_state.get("query_input", ...)
FALLBACK_RAG_QUERY ==
    <<  99, 111, 109, 101, 100, 121, 32, 115, 101, 114, 105, 101, 115 >>

-----------------------------------------------------------------------------
(* Values.                                                                 *)

\* Python's None
None == "None"

\* app.py:183
COLLECTION_NAME == "tv_shows"

\* app.py:184
MODEL_NAME == "all-MiniLM-L6-v2"

\* top_k=3, the default of search_in_qdrant, app.py:253
TOP_K_DEFAULT == 3

\* top_k=2 of the check of the RAG tab, app.py:459
TOP_K_RAG == 2

\* the empty str
EMPTY == << >>

RECURSIVE Join(_, _)
\* sep.join(parts) of Python, for a list of strs
Join(sep, parts) ==
    IF parts = << >> THEN EMPTY
    ELSE IF Len(parts) = 1 THEN parts[1]
    ELSE parts[1] \o sep \o Join(sep, Tail(parts))

-----------------------------------------------------------------------------
(* is_russian, app.py:217-218.                                             *)

\* the character class [а-яА-Я] of the pattern: U+0430..U+044F and U+0410..U+042F
InRussianClass(c) ==
    \/ (1072 <= c /\ c <= 1103)
    \/ (1040 <= c /\ c <= 1071)

\* bool(re.search('[а-яА-Я]', text)): some character of the text is in the class
is_russian(text) ==
    \E i \in 1 .. Len(text) : InRussianClass(text[i])

-----------------------------------------------------------------------------
(* check_api_keys, app.py:210-214.                                         *)

\* all([API_KEY, FOLDER_ID, YANDEX_TRANSLATE_API_KEY]): an empty or missing secret is falsy
check_api_keys ==
    /\ API_KEY # EMPTY
    /\ FOLDER_ID # EMPTY
    /\ YANDEX_TRANSLATE_API_KEY # EMPTY

-----------------------------------------------------------------------------
(* What a function call gives back to its caller: the value returned, or   *)
(* raises = TRUE when an exception leaves the function, with the calls it  *)
(* made to the outside and the widgets it rendered.                        *)

Returns(value, made, rendered) ==
    [ret |-> value, raises |-> FALSE, calls |-> made, shown |-> rendered]

Raises(made, rendered) ==
    [ret |-> None, raises |-> TRUE, calls |-> made, shown |-> rendered]

-----------------------------------------------------------------------------
(* translate_text, app.py:221-250.                                         *)
(* `net` is what requests.post does: [kind |-> "exception"] when it raises *)
(* (no connection, timeout), else [kind |-> "response"] with the status    *)
(* code and the body.                                                      *)

\* response.json()["translations"][0]["text"], app.py:244: the value, or ok = FALSE
\* when the body is no JSON, has no "translations", an empty list, or an entry
\* without "text" (ValueError, KeyError, IndexError)
TranslationOf(body) ==
    IF body.shape = "translations" THEN [ok |-> TRUE, text |-> body.text]
    ELSE [ok |-> FALSE, text |-> EMPTY]

\* the request built at app.py:226-241, with what came of it
TranslateRequest(text, target_lang, source_lang, net) ==
    [ api   |-> "translate",
      data  |-> [ texts              |-> << text >>,
                  targetLanguageCode |-> target_lang,
                  sourceLanguageCode |-> IF source_lang # None /\ source_lang # ""
                                         THEN source_lang ELSE None ],
      timeout |-> 10,
      outcome |-> net ]

\* translate_text that returns its input whatever the endpoint answers
translate_text_keeps_input(text, target_lang, source_lang, net) ==
    IF ~check_api_keys
    THEN Returns(text, << >>, << "error: keys" >>)
    ELSE Returns(text, << TranslateRequest(text, target_lang, source_lang, net) >>,
                 << "info: translate" >>)

\* translate_text that returns "" where the endpoint answers with a status other than 200
translate_text_empty_on_error(text, target_lang, source_lang, net) ==
    IF ~check_api_keys
    THEN Returns(text, << >>, << "error: keys" >>)
    ELSE LET request == << TranslateRequest(text, target_lang, source_lang, net) >>
         IN  IF net.kind = "exception"
             THEN Returns(text, request, << "info: translate", "error: connection" >>)
             ELSE IF net.status = 200 /\ TranslationOf(net.body).ok
             THEN Returns(TranslationOf(net.body).text, request,
                          << "info: translate", "success: translated" >>)
             ELSE Returns(EMPTY, request, << "info: translate", "error: api" >>)

translate_text(text, target_lang, source_lang, net) ==
    IF ~check_api_keys
    THEN Returns(text, << >>, << "error: keys" >>)
    ELSE LET request == << TranslateRequest(text, target_lang, source_lang, net) >>
             info    == << "info: translate" >>
         IN  IF net.kind = "exception"
             THEN Returns(text, request, info \o << "error: connection" >>)
             ELSE IF net.status = 200
             THEN IF TranslationOf(net.body).ok
                  THEN Returns(TranslationOf(net.body).text, request,
                               info \o << "success: translated" >>)
                  ELSE Returns(text, request,
                               info \o << "success: translated", "error: connection" >>)
             ELSE Returns(text, request, info \o << "error: api" >>)

-----------------------------------------------------------------------------
(* search_in_qdrant, app.py:253-270.                                       *)

\* embedding_model.encode(query, convert_to_tensor=True).cpu().numpy().tolist(),
\* app.py:256: the vector the model named MODEL_NAME assigns to the text (the
\* model is deterministic, so the vector is determined by the text)
encode(query) ==
    [model |-> MODEL_NAME, text |-> query]

\* search_in_qdrant with the call of the embedding model outside the try block
search_in_qdrant_encode_outside_try(query, top_k, enc, index) ==
    LET encoding  == [api |-> "encode", data |-> [text |-> query], outcome |-> enc]
        searching == [api |-> "search",
                      data |-> [ collection_name |-> COLLECTION_NAME,
                                 query_vector    |-> encode(query),
                                 limit           |-> top_k ],
                      outcome |-> index]
    IN  IF enc = "exception"
        THEN Raises(<< encoding >>, << "info: encode" >>)
        ELSE IF index.kind = "exception"
        THEN Returns(<< >>, << encoding, searching >>,
                     << "info: encode", "info: search", "error: qdrant" >>)
        ELSE Returns([i \in 1 .. Len(index.hits) |-> index.hits[i].payload],
                     << encoding, searching >>,
                     << "info: encode", "info: search", "success: found" >>)

\* `enc` is what the embedding model does ("vector" or "exception"), `index` what
\* client.search does: [kind |-> "exception"], or [kind |-> "hits"] with the
\* points found, nearest first
search_in_qdrant(query, top_k, enc, index) ==
    LET encoding  == [api |-> "encode", data |-> [text |-> query], outcome |-> enc]
        searching == [api |-> "search",
                      data |-> [ collection_name |-> COLLECTION_NAME,
                                 query_vector    |-> encode(query),
                                 limit           |-> top_k ],
                      outcome |-> index]
    IN  IF enc = "exception"
        THEN Returns(<< >>, << encoding >>,
                     << "info: encode", "error: qdrant" >>)
        ELSE IF index.kind = "exception"
        THEN Returns(<< >>, << encoding, searching >>,
                     << "info: encode", "info: search", "error: qdrant" >>)
        ELSE Returns([i \in 1 .. Len(index.hits) |-> index.hits[i].payload],
                     << encoding, searching >>,
                     << "info: encode", "info: search", "success: found" >>)

-----------------------------------------------------------------------------
(* ask_yandex_gpt, app.py:273-328.                                         *)

\* str(value) as the f-string of app.py:282 formats a payload field: a str as
\* itself, a list of strs as Python's repr of the list
Format(value) ==
    IF value.type = "str" THEN value.v
    ELSE << 91 >>
         \o Join(<< 44, 32 >>, [i \in 1 .. Len(value.v) |-> << 39 >> \o value.v[i] \o << 39 >>])
         \o << 93 >>

\* show.get(key, ''), formatted: no placeholder for a missing field
FieldWithoutPlaceholder(show, key) ==
    IF key \in DOMAIN show THEN Format(show[key]) ELSE EMPTY

\* show.get(key, 'N/A'), formatted
Field(show, key) ==
    IF key \in DOMAIN show THEN Format(show[key]) ELSE NA_TEXT

\* one element of the list comprehension of app.py:281-284
ContextLine(show) ==
    TITLE_PREFIX \o Field(show, "title")
        \o GENRES_INFIX \o Field(show, "genres")
        \o DESCRIPTION_INFIX \o Field(show, "description")

\* context_str, app.py:281-284
ContextStr(context) ==
    Join(LINE_BREAK, [i \in 1 .. Len(context) |-> ContextLine(context[i])])

\* system_prompt, app.py:286-298
SystemPrompt(context_str) ==
    SYSTEM_PROMPT_HEAD \o context_str

\* final_prompt, app.py:300
FinalPrompt(user_query) ==
    USER_QUESTION_PREFIX \o user_query

\* the request built at app.py:306-322, with what came of it
CompletionRequest(system_prompt, final_prompt, net) ==
    [ api  |-> "completion",
      data |-> [ modelUri |-> [scheme |-> "gpt", folder |-> FOLDER_ID,
                              model |-> "yandexgpt-lite/latest"],
                 completionOptions |-> [temperature |-> "0.4", maxTokens |-> 2000],
                 messages |-> << [role |-> "system", text |-> system_prompt],
                                 [role |-> "user",   text |-> final_prompt] >> ],
      timeout |-> 15,
      outcome |-> net ]

\* response.raise_for_status(), app.py:323: raises for a 4xx or 5xx status
RaisesForStatus(status) ==
    400 <= status /\ status < 600

\* response.json()['result']['alternatives'][0]['message']['text'], app.py:325
CompletionOf(body) ==
    IF body.shape = "result" THEN [ok |-> TRUE, text |-> body.text]
    ELSE [ok |-> FALSE, text |-> EMPTY]

\* the guard left out
NoContextUnchecked(context) ==
    FALSE

\* `if not context`, app.py:274
NoContext(context) ==
    context = << >>

\* the request made outside a try block: an exception of requests.post leaves the function
CompleteUncaught(request, net) ==
    IF net.kind = "exception"
    THEN Raises(request, << "info: completion" >>)
    ELSE IF RaisesForStatus(net.status) \/ ~CompletionOf(net.body).ok
    THEN Returns(ERROR_PREFIX \o net.msg, request,
                 << "info: completion", "error: completion" >>)
    ELSE Returns(CompletionOf(net.body).text, request,
                 << "info: completion", "success: completion" >>)

\* the try block of app.py:321-328; `net` is what requests.post does, as for
\* translate_text, and net.msg is str(e) of the exception caught, if one is raised
Complete(request, net) ==
    IF net.kind = "exception" \/ RaisesForStatus(net.status)
    THEN Returns(ERROR_PREFIX \o net.msg, request,
                 << "info: completion", "error: completion" >>)
    ELSE IF ~CompletionOf(net.body).ok
    THEN Returns(ERROR_PREFIX \o net.msg, request,
                 << "info: completion", "success: completion", "error: completion" >>)
    ELSE Returns(CompletionOf(net.body).text, request,
                 << "info: completion", "success: completion" >>)

ask_yandex_gpt(user_query, context, check_rag, net) ==
    IF NoContext(context)
    THEN Returns(NO_SHOWS_TEXT, << >>, << >>)
    ELSE IF ~check_api_keys
    THEN Returns(KEYS_NOT_CONFIGURED_TEXT, << >>, << "error: keys" >>)
    ELSE LET context_str   == ContextStr(context)
             system_prompt == SystemPrompt(context_str)
             final_prompt  == FinalPrompt(user_query)
             c             == Complete(<< CompletionRequest(system_prompt, final_prompt, net) >>,
                                       net)
         IN  IF check_rag
             THEN Returns(<< system_prompt, final_prompt, context_str >>, << >>,
                          << "info: context" >>)
             ELSE [c EXCEPT !.shown = << "info: context" >> \o @]

-----------------------------------------------------------------------------
(* The outside: the texts a user types, the catalog behind the vector      *)
(* index, and what the three services can answer.                          *)

Range(seq) == { seq[i] : i \in 1 .. Len(seq) }

\* a payload field holding a str, and one holding a list of strs
Str(text) == [type |-> "str", v |-> text]
List(texts) == [type |-> "list", v |-> texts]

\* three points of the collection: the payload of the first has no "description",
\* the payload of the second no "title", the payload of the third no "genres"
\*   {"title": "Dark", "genres": ["Drama", "SciFi"]}
\*   {"genres": "Crime", "description": "Two cops"}
\*   {"title": "Lost", "description": "Island"}
Catalog ==
    { [payload |-> [ title  |-> Str(<< 68, 97, 114, 107 >>),
                     genres |-> List(<< << 68, 114, 97, 109, 97 >>,
                                        << 83, 99, 105, 70, 105 >> >>) ]],
      [payload |-> [ genres      |-> Str(<< 67, 114, 105, 109, 101 >>),
                     description |-> Str(<< 84, 119, 111, 32, 99, 111, 112, 115 >>) ]],
      [payload |-> [ title       |-> Str(<< 76, 111, 115, 116 >>),
                     description |-> Str(<< 73, 115, 108, 97, 110, 100 >>) ]] }

\* what client.search(..., limit=top_k) can find: at most top_k points, none twice
HitLists(top_k) ==
    { << >> }
        \cup { << a >> : a \in Catalog }
        \cup { h \in { << a, b >> : a \in Catalog, b \in Catalog } :
                 h[1] # h[2] /\ Len(h) <= top_k }
        \cup { h \in { << a, b, c >> : a \in Catalog, b \in Catalog, c \in Catalog } :
                 Cardinality(Range(h)) = Len(h) /\ Len(h) <= top_k }

IndexOutcomes(top_k) ==
    { [kind |-> "exception", hits |-> << >>] }
        \cup { [kind |-> "hits", hits |-> h] : h \in HitLists(top_k) }

\* the queries typed into the text input: "q7", "я" and "ё"
Queries ==
    { << 113, 55 >>, << 1103 >>, << 1105 >> }

\* the texts the translation endpoint answers with: "", "z" and "я"
TranslatedTexts ==
    { EMPTY, << 122 >>, << 1103 >> }

\* the texts the completion endpoint answers with: "A" and "B"
GeneratedTexts ==
    { << 65 >>, << 66 >> }

\* str(e) of an exception caught at app.py:326: "timed out"
ExceptionTexts ==
    { << 116, 105, 109, 101, 100, 32, 111, 117, 116 >> }

\* no call is made
NoNet == [kind |-> "none", status |-> 0, body |-> [shape |-> "none", text |-> EMPTY], msg |-> EMPTY]

NoIndex == [kind |-> "none", hits |-> << >>]

\* what requests.post to the translation endpoint can do (app.py:241)
TranslateNet ==
    { [kind |-> "exception", status |-> 0, body |-> [shape |-> "none", text |-> EMPTY], msg |-> m]
        : m \in ExceptionTexts }
    \cup { [kind |-> "response", status |-> s, body |-> [shape |-> "none", text |-> EMPTY], msg |-> EMPTY]
        : s \in { 500 } }
    \cup { [kind |-> "response", status |-> 200, body |-> [shape |-> sh, text |-> EMPTY], msg |-> EMPTY]
        : sh \in { "no translations" } }
    \cup { [kind |-> "response", status |-> 200, body |-> [shape |-> "translations", text |-> t], msg |-> EMPTY]
        : t \in TranslatedTexts }

\* what requests.post to the completion endpoint can do (app.py:322)
CompletionNet ==
    { [kind |-> "exception", status |-> 0, body |-> [shape |-> "none", text |-> EMPTY], msg |-> m]
        : m \in ExceptionTexts }
    \cup { [kind |-> "response", status |-> s, body |-> [shape |-> "none", text |-> EMPTY], msg |-> m]
        : s \in { 500 }, m \in ExceptionTexts }
    \cup { [kind |-> "response", status |-> 200, body |-> [shape |-> "no result", text |-> EMPTY], msg |-> m]
        : m \in ExceptionTexts }
    \cup { [kind |-> "response", status |-> 200, body |-> [shape |-> "result", text |-> t], msg |-> EMPTY]
        : t \in GeneratedTexts }

-----------------------------------------------------------------------------
(* main, app.py:352-493.  Streamlit runs the script from top to bottom on  *)
(* every interaction; st.session_state is all that one run hands to the    *)
(* next.                                                                   *)

\* `key in st.session_state`
Has(state, key) == key \in DOMAIN state

\* st.session_state.key = value
Put(state, key, value) ==
    [k \in DOMAIN state \cup { key } |-> IF k = key THEN value ELSE state[k]]

\* app.py:430-431: the condition under which the button "Перевести ответ на русский"
\* is rendered
TranslateOffered(state) ==
    /\ Has(state, "was_russian")
    /\ ~state["was_russian"]
    /\ Has(state, "gpt_response_en")

\* app.py:430-451: what the script renders after the search block in a run where the
\* buttons below it are not clicked
RestOfPage(state) ==
    (IF TranslateOffered(state) THEN << "button: translate" >> ELSE << >>)
        \o << "button: rag" >>

\* the translation written over the stored English answer
StoreTranslationAsAnswer(state, gpt_response_ru) ==
    Put(state, "gpt_response_en", gpt_response_ru)

\* st.session_state.gpt_response_ru = gpt_response_ru, app.py:426 and 436
StoreTranslation(state, gpt_response_ru) ==
    Put(state, "gpt_response_ru", gpt_response_ru)

\* the answer translated back whatever the language of the query
WasRussianIgnored(state) ==
    TRUE

\* `if st.session_state.was_russian:`, app.py:417
WasRussian(state) ==
    state["was_russian"]

\* the local variables of main; each of the last four holds none or one value
Locals(original_query, user_query, shows, gpt_response_en, gpt_response_ru, rag) ==
    [ original_query  |-> original_query,
      user_query      |-> user_query,
      shows           |-> shows,
      gpt_response_en |-> gpt_response_en,
      gpt_response_ru |-> gpt_response_ru,
      rag             |-> rag ]

NoLocals == Locals(EMPTY, EMPTY, << >>, << >>, << >>, << >>)

NoArgs == [text |-> EMPTY]

\* the run goes on at `next`, having made the calls `made` and rendered `rendered`
Continue(next, state, values, made, rendered) ==
    /\ pc' = next
    /\ session_state' = state
    /\ locals' = values
    /\ raised' = FALSE
    /\ calls' = calls \o made
    /\ shown' = shown \o rendered
    /\ UNCHANGED << API_KEY, FOLDER_ID, YANDEX_TRANSLATE_API_KEY, handler, args, ret >>

\* the run reaches the end of the script
End(state, values, made, rendered) ==
    Continue("idle", state, values, made, rendered \o RestOfPage(state))

\* an exception leaves main: Streamlit shows it and the run is over
Abort(made, rendered) ==
    /\ pc' = "idle"
    /\ raised' = TRUE
    /\ calls' = calls \o made
    /\ shown' = shown \o rendered \o << "exception" >>
    /\ UNCHANGED << API_KEY, FOLDER_ID, YANDEX_TRANSLATE_API_KEY, handler, args, ret,
                    session_state, locals >>

\* a click starts a run of the script
Click(name) ==
    /\ pc = "idle"
    /\ handler' = name
    /\ args' = NoArgs
    /\ ret' = None
    /\ UNCHANGED << API_KEY, FOLDER_ID, YANDEX_TRANSLATE_API_KEY >>

\* app.py:376-398: the button "Поиск" is clicked
SearchClick ==
    LET user_query == session_state["query_input"]
        state      == Put(session_state, "was_russian", is_russian(user_query))
    IN  /\ Click("search")
        /\ answered' = << >>
        /\ calls' = << >>
        /\ raised' = FALSE
        /\ locals' = Locals(user_query, user_query, << >>, << >>, << >>, << >>)
        /\ IF ~check_api_keys
           THEN /\ pc' = "idle"
                /\ shown' = << "error: keys", "error: configure keys" >>
                /\ UNCHANGED session_state
           ELSE /\ session_state' = state
                /\ IF state["was_russian"]
                   THEN pc' = "translate_in" /\ shown' = << "effect", "card: tokens" >>
                   ELSE pc' = "retrieve" /\ shown' = << >>

\* app.py:393-398: user_query = translate_text(user_query, target_lang="en", source_lang="ru")
TranslateIn ==
    /\ pc = "translate_in"
    /\ UNCHANGED answered
    /\ \E net \in TranslateNet :
        LET t == translate_text(locals.user_query, "en", "ru", net)
        IN  IF t.raises
            THEN Abort(t.calls, t.shown)
            ELSE Continue("retrieve", session_state, [locals EXCEPT !.user_query = t.ret],
                          t.calls, t.shown \o << "card: translated query" >>)

\* app.py:400-404 and 427-428: shows = search_in_qdrant(user_query)
Retrieve ==
    /\ pc = "retrieve"
    /\ UNCHANGED answered
    /\ \E enc \in { "vector", "exception" } :
       \E index \in (IF enc = "vector" THEN IndexOutcomes(TOP_K_DEFAULT) ELSE { NoIndex }) :
        LET s == search_in_qdrant(locals.user_query, TOP_K_DEFAULT, enc, index)
        IN  IF s.raises
            THEN Abort(s.calls, s.shown)
            ELSE IF s.ret # << >>
            THEN Continue("generate", session_state, [locals EXCEPT !.shows = << s.ret >>],
                          s.calls, s.shown \o << "json: shows" >>)
            ELSE End(session_state, [locals EXCEPT !.shows = << s.ret >>],
                     s.calls, s.shown \o << "warning: no shows" >>)

\* app.py:406-417: gpt_response_en = ask_yandex_gpt(user_query, shows)
Generate ==
    /\ pc = "generate"
    /\ \E net \in CompletionNet :
        LET g     == ask_yandex_gpt(locals.user_query, locals.shows[1], FALSE, net)
            state == Put(session_state, "gpt_response_en", g.ret)
            seen  == g.shown \o << "card: answer en" >>
        IN  IF g.raises
            THEN Abort(g.calls, g.shown) /\ UNCHANGED answered
            ELSE /\ answered' = << g.ret >>
                 /\ IF WasRussian(state)
                    THEN Continue("translate_out", state,
                                  [locals EXCEPT !.gpt_response_en = << g.ret >>], g.calls, seen)
                    ELSE End(state, [locals EXCEPT !.gpt_response_en = << g.ret >>],
                             g.calls, seen)

\* app.py:417-426: gpt_response_ru = translate_text(gpt_response_en, target_lang="ru", source_lang="en")
TranslateOut ==
    /\ pc = "translate_out"
    /\ UNCHANGED answered
    /\ \E net \in TranslateNet :
        LET t == translate_text(locals.gpt_response_en[1], "ru", "en", net)
        IN  IF t.raises
            THEN Abort(t.calls, t.shown)
            ELSE End(StoreTranslation(session_state, t.ret),
                     [locals EXCEPT !.gpt_response_ru = << t.ret >>],
                     t.calls, t.shown \o << "card: answer ru" >>)

\* app.py:432-443: the button "Перевести ответ на русский", which the last run
\* rendered, is clicked
TranslateClick ==
    /\ "button: translate" \in Range(shown)
    /\ Click("translate")
    /\ UNCHANGED answered
    /\ pc' = "idle"
    /\ \E net \in TranslateNet :
        LET t == translate_text(session_state["gpt_response_en"], "ru", "en", net)
        IN  /\ calls' = t.calls
            /\ raised' = t.raises
            /\ IF t.raises
               THEN /\ shown' = << "button: translate", "effect" >> \o t.shown
                                    \o << "exception" >>
                    /\ locals' = NoLocals
                    /\ UNCHANGED session_state
               ELSE /\ shown' = << "button: translate", "effect" >> \o t.shown
                                    \o << "card: answer ru", "button: rag" >>
                    /\ locals' = [NoLocals EXCEPT !.gpt_response_ru = << t.ret >>]
                    /\ session_state' = StoreTranslation(session_state, t.ret)

\* app.py:451-493: the button "Проверить RAG", which the last run rendered, is clicked
RagClick ==
    /\ "button: rag" \in Range(shown)
    /\ Click("rag")
    /\ UNCHANGED << answered, session_state >>
    /\ pc' = "idle"
    /\ LET head  == (IF TranslateOffered(session_state) THEN << "button: translate" >>
                     ELSE << >>) \o << "button: rag" >>
           query == IF Has(session_state, "query_input") THEN session_state["query_input"]
                    ELSE FALLBACK_RAG_QUERY
       IN  IF ~check_api_keys
           THEN /\ calls' = << >>
                /\ raised' = FALSE
                /\ locals' = NoLocals
                /\ shown' = head \o << "error: keys", "error: configure keys" >>
           ELSE \E enc \in { "vector", "exception" } :
                \E index \in (IF enc = "vector" THEN IndexOutcomes(TOP_K_RAG) ELSE { NoIndex }) :
                    LET s == search_in_qdrant(query, TOP_K_RAG, enc, index)
                        g == ask_yandex_gpt(session_state["test_query"], s.ret, TRUE, NoNet)
                    IN  IF s.raises
                        THEN /\ calls' = s.calls
                             /\ raised' = TRUE
                             /\ locals' = NoLocals
                             /\ shown' = head \o s.shown \o << "exception" >>
                        ELSE IF s.ret = << >>
                        THEN /\ calls' = s.calls
                             /\ raised' = FALSE
                             /\ locals' = [NoLocals EXCEPT !.user_query = query,
                                                           !.shows = << s.ret >>]
                             /\ shown' = head \o s.shown \o << "warning: no data" >>
                        ELSE /\ calls' = s.calls \o g.calls
                             /\ raised' = g.raises
                             /\ locals' = [NoLocals EXCEPT !.user_query = query,
                                                           !.shows = << s.ret >>,
                                                           !.rag = << g.ret >>]
                             /\ shown' = head \o s.shown \o g.shown
                                              \o << "expander: rag", "success: check" >>

\* the user types another query into the text input keyed "query_input" (app.py:374):
\* a run in which no button is clicked
EditQuery ==
    \E q \in Queries \ { session_state["query_input"] } :
        /\ Click("edit")
        /\ UNCHANGED answered
        /\ pc' = "idle"
        /\ session_state' = Put(session_state, "query_input", q)
        /\ locals' = NoLocals
        /\ calls' = << >>
        /\ raised' = FALSE
        /\ shown' = RestOfPage(session_state')

-----------------------------------------------------------------------------
(* The page and its session.                                               *)

\* the values a secret of secrets.toml can have: empty, or a key
SecretValues == { EMPTY, << 107 >> }

\* the first run of the script: no button is clicked, the text inputs hold their
\* initial values (app.py:374, 449)
Init ==
    /\ API_KEY \in SecretValues
    /\ FOLDER_ID \in SecretValues
    /\ YANDEX_TRANSLATE_API_KEY \in SecretValues
    /\ session_state = [ query_input |-> DEFAULT_QUERY_INPUT,
                         test_query  |-> DEFAULT_TEST_QUERY ]
    /\ pc = "idle"
    /\ handler = "load"
    /\ locals = NoLocals
    /\ args = NoArgs
    /\ ret = None
    /\ raised = FALSE
    /\ calls = << >>
    /\ shown = RestOfPage(session_state)
    /\ answered = << >>

Next ==
    \/ EditQuery
    \/ SearchClick
    \/ TranslateIn
    \/ Retrieve
    \/ Generate
    \/ TranslateOut
    \/ TranslateClick
    \/ RagClick

Spec == Init /\ [][Next]_vars

-----------------------------------------------------------------------------
(* The functions called on their own, on the freshly loaded page, with     *)
(* arguments that main never passes them (no credentials, no context).     *)

\* a function returned
Called(name, arguments, r) ==
    /\ pc = "idle"
    /\ handler \in { "load", "translate_text", "ask_yandex_gpt" }
    /\ handler' = name
    /\ args' = arguments
    /\ ret' = r.ret
    /\ raised' = r.raises
    /\ calls' = r.calls
    /\ shown' = r.shown
    /\ UNCHANGED << API_KEY, FOLDER_ID, YANDEX_TRANSLATE_API_KEY, session_state, pc, locals,
                    answered >>

\* translate_text(text, target_lang, source_lang) with any text, with and without a
\* source language
CallTranslateText ==
    \E text \in Queries \cup GeneratedTexts \cup { EMPTY } :
    \E lang \in { << "en", "ru" >>, << "ru", "en" >>, << "ru", None >> } :
    \E net \in TranslateNet :
        Called("translate_text",
               [text |-> text, target_lang |-> lang[1], source_lang |-> lang[2], net |-> net],
               translate_text(text, lang[1], lang[2], net))

\* the payloads of the points found
Payloads(hits) ==
    [i \in 1 .. Len(hits) |-> hits[i].payload]

\* ask_yandex_gpt(user_query, context, check_rag) with any context, the empty one too
CallAskYandexGpt ==
    \E user_query \in Queries :
    \E hits \in HitLists(TOP_K_DEFAULT) :
    \E check_rag \in BOOLEAN :
    \E net \in (IF check_rag THEN { NoNet } ELSE CompletionNet) :
        Called("ask_yandex_gpt",
               [text |-> user_query, context |-> Payloads(hits), check_rag |-> check_rag,
                net |-> net],
               ask_yandex_gpt(user_query, Payloads(hits), check_rag, net))

NextCalls ==
    \/ Next
    \/ CallTranslateText
    \/ CallAskYandexGpt

SpecCalls == Init /\ [][NextCalls]_vars

-----------------------------------------------------------------------------
(* is_russian on every text of a bounded length over an alphabet that      *)
(* holds the whole Russian alphabet.                                       *)

\* the longest text is_russian is applied to
MaxTextLen == 2

\* А..Я and а..я (U+0410..U+044F), Ё (U+0401) and ё (U+0451)
RussianAlphabet ==
    (1040 .. 1103) \cup { 1025, 1105 }

\* "q", "7", " " and the CJK ideograph U+4E2D
OtherCharacters ==
    { 113, 55, 32, 20013 }

Alphabet ==
    RussianAlphabet \cup OtherCharacters

Texts ==
    UNION { [1 .. n -> Alphabet] : n \in 0 .. MaxTextLen }

InitIsRussian ==
    /\ API_KEY = EMPTY
    /\ FOLDER_ID = EMPTY
    /\ YANDEX_TRANSLATE_API_KEY = EMPTY
    /\ session_state = [ query_input |-> DEFAULT_QUERY_INPUT,
                         test_query  |-> DEFAULT_TEST_QUERY ]
    /\ pc = "idle"
    /\ handler = "load"
    /\ locals = NoLocals
    /\ args \in { [text |-> t] : t \in Texts }
    /\ ret = None
    /\ raised = FALSE
    /\ calls = << >>
    /\ shown = RestOfPage(session_state)
    /\ answered = << >>

\* is_russian(text)
CallIsRussian ==
    /\ handler = "load"
    /\ handler' = "is_russian"
    /\ ret' = is_russian(args.text)
    /\ UNCHANGED << API_KEY, FOLDER_ID, YANDEX_TRANSLATE_API_KEY, session_state, pc, locals,
                    args, raised, calls, shown, answered >>

SpecIsRussian == InitIsRussian /\ [][CallIsRussian]_vars

-----------------------------------------------------------------------------
(* What the claims speak of, read off the state.                           *)

\* the positions in `calls` of the calls to `api`
CallsTo(api) ==
    { i \in 1 .. Len(calls) : calls[i].api = api }

\* the translation calls from `source` to `target`
Translations(source, target) ==
    { i \in CallsTo("translate") :
        /\ calls[i].data.sourceLanguageCode = source
        /\ calls[i].data.targetLanguageCode = target }

\* the endpoint answered 200 with a body that holds the text asked for
Answered200(net, shape) ==
    /\ net.kind = "response"
    /\ net.status = 200
    /\ net.body.shape = shape

\* what a translation call is to give its caller: the text of the response, and the
\* text sent when the call failed
Translated(call) ==
    IF Answered200(call.outcome, "translations") THEN call.outcome.body.text
    ELSE call.data.texts[1]

\* the query of this run was detected as Russian
DetectedRussian ==
    Has(session_state, "was_russian") /\ session_state["was_russian"]

\* retrieval came back empty: the embedding or the search failed, or nothing matched
RetrievalEmpty ==
    \/ \E i \in CallsTo("encode") : calls[i].outcome = "exception"
    \/ \E i \in CallsTo("search") :
            calls[i].outcome.kind = "exception" \/ calls[i].outcome.hits = << >>

-----------------------------------------------------------------------------
\* C1: a request whose retrieval comes back empty (no match, an empty catalog, a
\* caught retrieval error) ends in the "no results" warning without a call to the
\* completion endpoint, and ask_yandex_gpt with an empty context returns the fixed
\* "No relevant shows found" text without any call.
C1_NoHitsNoGeneration ==
    /\ (handler \in { "search", "rag" } /\ RetrievalEmpty) =>
            /\ pc = "idle"
            /\ ~raised
            /\ CallsTo("completion") = { }
            /\ locals.shows = << << >> >>
            /\ locals.gpt_response_en = << >>
            /\ locals.rag = << >>
            /\ handler = "search" => "warning: no shows" \in Range(shown)
            /\ handler = "rag" => "warning: no data" \in Range(shown)
            /\ "card: answer en" \notin Range(shown)
    /\ (handler = "ask_yandex_gpt" /\ args.context = << >>) =>
            /\ ret = NO_SHOWS_TEXT
            /\ calls = << >>
            /\ ~raised

\* a search whose index query failed has ended in the warning
C1_Witness ==
    /\ handler = "search"
    /\ pc = "idle"
    /\ \E i \in CallsTo("search") : calls[i].outcome.kind = "exception"
    /\ "warning: no shows" \in Range(shown)

-----------------------------------------------------------------------------
\* C2: when the query is detected as Russian, the translation call from "ru" to "en"
\* of the query as typed comes first, and the text embedded and searched with is what
\* that translation gave, not the query as typed.
C2_TranslateBeforeEmbed ==
    (handler = "search" /\ DetectedRussian) =>
        \A j \in CallsTo("encode") \cup CallsTo("search") :
            /\ j > 1
            /\ calls[1].api = "translate"
            /\ calls[1].data = [ texts              |-> << locals.original_query >>,
                                 targetLanguageCode |-> "en",
                                 sourceLanguageCode |-> "ru" ]
            /\ locals.user_query = Translated(calls[1])
            /\ calls[j].api = "encode" => calls[j].data.text = Translated(calls[1])
            /\ calls[j].api = "search" =>
                    calls[j].data.query_vector = encode(Translated(calls[1]))

\* the query "я" was translated to "z", and "z" was searched with
C2_Witness ==
    /\ handler = "search"
    /\ DetectedRussian
    /\ locals.original_query = << 1103 >>
    /\ CallsTo("search") # { }
    /\ Answered200(calls[1].outcome, "translations")
    /\ calls[1].outcome.body.text = << 122 >>

-----------------------------------------------------------------------------
\* the translation did not succeed: no credentials, an exception, a status other
\* than 200, or a body without translations[0].text
TranslationFailed(net) ==
    ~check_api_keys \/ ~Answered200(net, "translations")

\* every translation call of a request has handed its result on, and the request has
\* gone on to its next step
RequestContinues ==
    handler \in { "search", "translate" } =>
        /\ ~raised
        /\ \A i \in Translations("ru", "en") :
                /\ pc \in { "retrieve", "generate", "translate_out", "idle" }
                /\ locals.user_query = Translated(calls[i])
        /\ \A i \in Translations("en", "ru") :
                /\ pc = "idle"
                /\ locals.gpt_response_ru = << Translated(calls[i]) >>
                /\ session_state["gpt_response_ru"] = Translated(calls[i])
                /\ "card: answer ru" \in Range(shown)

\* C3 as stated: translate_text never raises and never returns an empty string for a
\* non-empty input; on every failure outcome it returns the original text, and the
\* calling request continues.
C3_NeverEmpty ==
    /\ handler = "translate_text" =>
            /\ ~raised
            /\ args.text # EMPTY => ret # EMPTY
            /\ TranslationFailed(args.net) => ret = args.text
    /\ RequestContinues

\* C3, amended: translate_text never raises; on every failure outcome it returns
\* exactly the original text, and the calling request continues; on a 200 response
\* with a well-formed body it returns the text of the response as it is, the empty
\* string too.
C3_FailureReturnsOriginal ==
    /\ handler = "translate_text" =>
            /\ ~raised
            /\ TranslationFailed(args.net) => ret = args.text
            /\ ~TranslationFailed(args.net) => ret = args.net.body.text
    /\ RequestContinues

\* "я" was sent with credentials and the endpoint answered 500
C3_Witness ==
    /\ handler = "translate_text"
    /\ check_api_keys
    /\ args.text = << 1103 >>
    /\ args.net.kind = "response"
    /\ args.net.status = 500
    /\ ret = << 1103 >>

-----------------------------------------------------------------------------
\* the embedding model raised in this run
EmbeddingFailed ==
    \E i \in CallsTo("encode") : calls[i].outcome = "exception"

-----------------------------------------------------------------------------
\* the completion call failed: an exception, a status other than 200, or a body
\* without result.alternatives[0].message.text
GenerationFailed(net) ==
    ~Answered200(net, "result")

\* C5: no request raises and every search request ends with a text shown; whatever
\* the completion call does (an exception, a 4xx or 5xx status, a malformed body),
\* ask_yandex_gpt returns an error-describing string and the request goes on.
C5_AlwaysSomeText ==
    /\ ~raised
    /\ pc # "idle" => ENABLED (TranslateIn \/ Retrieve \/ Generate \/ TranslateOut)
    /\ (handler = "search" /\ pc = "idle") =>
            \/ "error: configure keys" \in Range(shown)
            \/ "warning: no shows" \in Range(shown)
            \/ "card: answer en" \in Range(shown)
    /\ \A i \in CallsTo("completion") :
            GenerationFailed(calls[i].outcome) =>
                /\ locals.gpt_response_en = << ERROR_PREFIX \o calls[i].outcome.msg >>
                /\ session_state["gpt_response_en"] = ERROR_PREFIX \o calls[i].outcome.msg
                /\ "card: answer en" \in Range(shown)
                /\ pc \in { "translate_out", "idle" }
                /\ (pc = "idle" /\ DetectedRussian) =>
                        \E o \in Translations("en", "ru") :
                            /\ o > i
                            /\ calls[o].data.texts = << ERROR_PREFIX \o calls[i].outcome.msg >>

\* a Russian query whose completion call raised: the error text was translated back
C5_Witness ==
    /\ handler = "search"
    /\ pc = "idle"
    /\ DetectedRussian
    /\ \E i \in CallsTo("completion") : calls[i].outcome.kind = "exception"
    /\ Translations("en", "ru") # { }

-----------------------------------------------------------------------------
\* C6: in a search request the answer is translated back ("en" to "ru") exactly when
\* the query was translated in ("ru" to "en"), that is when it was detected as
\* Russian, and only after the completion call has returned; for a query not detected
\* as Russian no translation call is made and the English answer is kept in the session.
C6_TranslateOutIffIn ==
    handler = "search" =>
        /\ CallsTo("translate") = Translations("ru", "en") \cup Translations("en", "ru")
        /\ Cardinality(Translations("ru", "en")) <= 1
        /\ Cardinality(Translations("en", "ru")) <= 1
        /\ pc # "translate_in" => (Translations("ru", "en") # { } <=> DetectedRussian)
        /\ \A o \in Translations("en", "ru") :
                /\ Translations("ru", "en") # { }
                /\ \E c \in CallsTo("completion") :
                        /\ c < o
                        /\ locals.gpt_response_en # << >>
                        /\ calls[o].data.texts = locals.gpt_response_en
        /\ (pc = "idle" /\ CallsTo("completion") # { }) =>
                (Translations("en", "ru") # { } <=> Translations("ru", "en") # { })
        /\ (check_api_keys /\ ~DetectedRussian) =>
                /\ CallsTo("translate") = { }
                /\ CallsTo("completion") # { } =>
                        /\ Has(session_state, "gpt_response_en")
                        /\ locals.gpt_response_en = << session_state["gpt_response_en"] >>

\* a Russian query answered and the answer translated back
C6_Witness ==
    /\ handler = "search"
    /\ pc = "idle"
    /\ Translations("ru", "en") # { }
    /\ CallsTo("completion") # { }
    /\ Translations("en", "ru") # { }

-----------------------------------------------------------------------------
\* C7: every click on the on-demand translation makes one fresh translation call with
\* the stored English answer as its text; it leaves the stored English answer and the
\* was_russian flag as they are and writes gpt_response_ru only, so the button is
\* rendered again.
C7_TranslateAgain ==
    [][ (pc = "idle" /\ handler' = "translate") =>
            /\ pc' = "idle"
            /\ ~raised'
            /\ DOMAIN session_state' = DOMAIN session_state \cup { "gpt_response_ru" }
            /\ \A k \in DOMAIN session_state \ { "gpt_response_ru" } :
                    session_state'[k] = session_state[k]
            /\ Len(calls') = 1
            /\ calls'[1].api = "translate"
            /\ calls'[1].data = [ texts              |-> << session_state["gpt_response_en"] >>,
                                  targetLanguageCode |-> "ru",
                                  sourceLanguageCode |-> "en" ]
            /\ session_state'["gpt_response_ru"] = Translated(calls'[1])
            /\ "button: translate" \in Range(shown')
      ]_vars

\* the answer was translated on demand while an earlier translation was stored, and
\* the translation differs from the answer
C7_Witness ==
    /\ handler = "translate"
    /\ Len(calls) = 1
    /\ Answered200(calls[1].outcome, "translations")
    /\ session_state["gpt_response_ru"] # session_state["gpt_response_en"]

-----------------------------------------------------------------------------
\* a Cyrillic letter: U+0400..U+0481 and U+048A..U+04FF
IsCyrillicLetter(c) ==
    \/ (1024 <= c /\ c <= 1153)
    \/ (1162 <= c /\ c <= 1279)

\* C8: is_russian says Russian exactly for the texts that hold at least one Cyrillic
\* letter.
C8_RussianIffCyrillic ==
    handler = "is_russian" =>
        (ret <=> \E i \in 1 .. Len(args.text) : IsCyrillicLetter(args.text[i]))

-----------------------------------------------------------------------------
\* whether `needle` occurs in `text` (Python's `needle in text`)
Contains(text, needle) ==
    \E i \in 0 .. (Len(text) - Len(needle)) :
        SubSeq(text, i + 1, i + Len(needle)) = needle

RECURSIVE Lines(_)
\* text.split("\n")
Lines(text) ==
    IF \A i \in 1 .. Len(text) : text[i] # LINE_BREAK[1] THEN << text >>
    ELSE LET k == CHOOSE i \in 1 .. Len(text) :
                      text[i] = LINE_BREAK[1] /\ \A j \in 1 .. (i - 1) : text[j] # LINE_BREAK[1]
         IN  << SubSeq(text, 1, k - 1) >> \o Lines(SubSeq(text, k + 1, Len(text)))

\* the field of a hit as the context block is to show it
Shown(show, key) ==
    IF key \in DOMAIN show THEN Format(show[key]) ELSE << 78, 47, 65 >>

\* the system message that the completion call of the run sent
SystemMessage ==
    calls[CHOOSE i \in CallsTo("completion") : TRUE].data.messages[1].text

\* a context block was built in this run: by the completion call of a search or of a
\* call of ask_yandex_gpt, or by check_rag
BlockBuilt ==
    \/ handler \in { "search", "ask_yandex_gpt" } /\ CallsTo("completion") # { }
    \/ handler = "rag" /\ locals.rag # << >>
    \/ handler = "ask_yandex_gpt" /\ args.context # << >> /\ args.check_rag /\ check_api_keys

\* the block, the hits it was built from and the user query of the call
Block ==
    IF handler = "rag" THEN locals.rag[1][3]
    ELSE IF handler = "ask_yandex_gpt" /\ args.check_rag THEN ret[3]
    ELSE SubSeq(SystemMessage, Len(SYSTEM_PROMPT_HEAD) + 1, Len(SystemMessage))

BlockHits ==
    IF handler = "ask_yandex_gpt" THEN args.context ELSE locals.shows[1]

BlockQuery ==
    IF handler = "rag" THEN session_state["test_query"]
    ELSE IF handler = "ask_yandex_gpt" THEN args.text
    ELSE locals.user_query

\* the system prompt of the run, where there is one
BlockPrompt ==
    IF handler = "rag" THEN locals.rag[1][1]
    ELSE IF handler = "ask_yandex_gpt" /\ args.check_rag THEN ret[1]
    ELSE SystemMessage

\* one line per hit, in the order of the hits, each with the three fields of its hit
\* and N/A for a field the hit does not have; the block follows the fixed head of the
\* system prompt and does not hold the user query
BlockWellFormed ==
    BlockBuilt =>
        /\ BlockHits # << >>
        /\ BlockPrompt = SYSTEM_PROMPT_HEAD \o Block
        /\ Len(Lines(Block)) = Len(BlockHits)
        /\ \A i \in 1 .. Len(BlockHits) :
                Lines(Block)[i] =
                    << 45, 32, 84, 105, 116, 108, 101, 58, 32 >>
                        \o Shown(BlockHits[i], "title")
                        \o << 44, 32, 71, 101, 110, 114, 101, 115, 58, 32 >>
                        \o Shown(BlockHits[i], "genres")
                        \o << 44, 32, 68, 101, 115, 99, 114, 105, 112, 116, 105, 111, 110, 58, 32 >>
                        \o Shown(BlockHits[i], "description")
        /\ BlockQuery # EMPTY => ~Contains(Block, BlockQuery)

\* C9: the context block has one line per hit, in retrieval order, each with the
\* title, genres and description of its hit and N/A for a missing field; it never
\* holds the user query, and two runs with the same hits build the same block, in the
\* generation path and in the check_rag path.
C9_ContextBlock ==
    /\ [] BlockWellFormed
    /\ [][ (BlockBuilt /\ BlockBuilt' /\ BlockHits' = BlockHits) => Block' = Block ]_vars

\* a search that found three hits and sent their block to the completion endpoint
C9_Witness ==
    /\ handler = "search"
    /\ BlockBuilt
    /\ Len(BlockHits) = 3
    /\ \E i \in 1 .. 3 : ~Has(BlockHits[i], "title")

-----------------------------------------------------------------------------
\* C10: whenever the on-demand translation is offered, the stored English answer is
\* the one generated for the most recently submitted search query.
C10_AnswerIsCurrent ==
    (pc = "idle" /\ "button: translate" \in Range(shown)) =>
        answered = << session_state["gpt_response_en"] >>

=============================================================================
